---------------------------- MODULE Spec2Model ----------------------------
(***************************************************************************)
(* Model of the chunked F5-TTS synthesis pipeline:                         *)
(*   audio_processor.py       AudioProcessor.chunk_text,                   *)
(*                            generate_audio_chunk, merge_audio_files,     *)
(*                            process_script                               *)
(*   google_drive_manager.py  DriveManager.list_files_in_folder,           *)
(*                            DriveManager.upload_file                     *)
(*   run_complete_pipeline.py run_pipeline                                 *)
(*                                                                         *)
(* A text is a sequence of one-character strings.  Python positions are    *)
(* 0-based; TLA+ sequences are 1-based, so text[i] of the source is        *)
(* text[i + 1] here and the slice text[a:b] is SubSeq(text, a + 1, b).     *)
(***************************************************************************)
EXTENDS Integers, Sequences, FiniteSets, TLC

VARIABLES
    pc,            \* position of the running code
    text,          \* chunk_text: the text argument
    max_chars,     \* chunk_text: the max_chars argument
    current_pos,   \* chunk_text: the cursor
    chunks,        \* chunk_text: the list being built / returned
    slices,        \* chunk_text: <<from, to>> of every slice a chunk was cut from
    windows,       \* chunk_text: <<cursor, end_pos>> of every delimiter search
    f5tts_model,   \* AudioProcessor.f5tts_model: TRUE once the model is loaded
    drive_manager, \* AudioProcessor.drive_manager: TRUE once it is set
    transcriptions,      \* run_pipeline: outcome of every transcribe_audio call
    reference_text,      \* run_pipeline: the transcription of the reference clip
    config,              \* run_pipeline: auto_upload, output_folder_id, chunk_size
    script_files,        \* run_pipeline: the scripts to process
    script_i,            \* run_pipeline: scripts taken from script_files so far
    all_generated_files, \* run_pipeline: the files of the scripts that returned
    status,        \* run_pipeline: per script, the branch that reported it
    script_chunks, \* process_script: chunks, what chunk_text returned to it
    i,             \* process_script: index of the chunk the loop is at
    generated_files,     \* process_script: the list it returns
    attempts,      \* process_script: result of every generate_audio_chunk call
    merge_input,   \* process_script: argument of every merge_audio_files call
    raised,        \* process_script: the exception that left it, or "none"
    events,        \* process_script: the calls it made, in the order it made them
    disk,          \* the local files: set of <<path, content>>
    drive_files,   \* the remote entries: set of [title, parent, id]
    upload_log,    \* every upload_file call: its arguments and result
    faults         \* collaborator failures so far

chunkVars == <<text, max_chars, current_pos, chunks, slices, windows>>

scriptVars ==
    <<script_chunks, i, generated_files, attempts, merge_input, raised,
      events>>

runVars ==
    <<f5tts_model, drive_manager, transcriptions, reference_text, config,
      script_files, script_i, all_generated_files, status>>

worldVars == <<disk, drive_files, upload_log, faults>>

vars == <<pc, chunkVars, scriptVars, runVars, worldVars>>

-----------------------------------------------------------------------------
(* Bounds of the model *)

\* longest text given to chunk_text on its own
MaxLen == 5

\* largest max_chars given to chunk_text on its own
MaxChars == 4

\* most scripts in one run
MaxScripts == 2

\* most collaborator failures in one run
MaxFaults == 3

\* most upload_file calls when upload_file is exercised on its own
MaxUploads == 3

\* max_chars as process_script passes it to chunk_text
DefaultMaxChars == 500

\* folder_id = None
NoFolder == "None"

\* Python's None where a value v that may be missing is written <<v>>: the
\* result of upload_file, the chunk_size entry of the configuration
None == <<>>

\* the chunk_size entries a config.json can have: none, or a size
ChunkSizes == {None, <<250>>}

-----------------------------------------------------------------------------
(* Texts *)

\* the characters texts are made of: a letter, the two whitespace characters
\* and the three sentence terminators the delimiters are built from
Alphabet == {"a", " ", "\n", ".", "!", "?"}

\* the characters str.strip() removes, among those of Alphabet
Whitespace == {" ", "\n"}

\* every text of length at most n
TextsUpTo(n) == UNION {[1..k -> Alphabet] : k \in 0..n}

\* n copies of the character c
Fill(c, n) == [j \in 1..n |-> c]

\* Python's s[a:b] for 0 <= a <= b <= len(s)
Slice(s, a, b) == SubSeq(s, a + 1, b)

SetMin(S) == CHOOSE x \in S : \A y \in S : x <= y

SetMax(S) == CHOOSE x \in S : \A y \in S : y <= x

\* Strip with the trimming left out
StripNothing(s) == s

\* str.strip(): leading and trailing whitespace removed
Strip(s) ==
    LET keep == {j \in 1..Len(s) : s[j] \notin Whitespace}
    IN  IF keep = {} THEN <<>> ELSE SubSeq(s, SetMin(keep), SetMax(keep))

\* the delimiter list of chunk_text, in the order the for loop tries it
Delimiters ==
    << <<".", " ">>, <<"!", " ">>, <<"?", " ">>,
       <<".", "\n">>, <<"!", "\n">>, <<"?", "\n">> >>

\* 0-based positions at which d occurs in s
Occurrences(s, d) ==
    {j \in 0..(Len(s) - Len(d)) : Slice(s, j, j + Len(d)) = d}

\* str.rfind(d): the highest position at which d occurs in s, or -1
Rfind(s, d) ==
    IF Occurrences(s, d) = {} THEN -1 ELSE SetMax(Occurrences(s, d))

\* SentenceEnd taking the rightmost occurrence of any delimiter, whatever its
\* place in the list
SentenceEndRightmostOfAll(t, cursor, maxc) ==
    LET chunk == Slice(t, cursor, cursor + maxc)
        ends == {Rfind(chunk, Delimiters[k]) + Len(Delimiters[k]) :
                    k \in {n \in 1..Len(Delimiters) :
                              Rfind(chunk, Delimiters[n]) # -1}}
    IN  IF ends = {} THEN cursor + maxc ELSE cursor + SetMax(ends)

\* SentenceEnd falling back to the last whitespace of the window when no
\* delimiter is found
SentenceEndWordFallback(t, cursor, maxc) ==
    LET chunk == Slice(t, cursor, cursor + maxc)
        found == {k \in 1..Len(Delimiters) : Rfind(chunk, Delimiters[k]) # -1}
        blanks == {j \in 1..Len(chunk) : chunk[j] \in Whitespace}
    IN  IF found = {}
        THEN IF blanks = {} THEN cursor + maxc ELSE cursor + SetMax(blanks)
        ELSE LET delimiter == Delimiters[SetMin(found)]
             IN  cursor + Rfind(chunk, delimiter) + Len(delimiter)

\* SentenceEnd searching a window one character longer than max_chars
SentenceEndWideWindow(t, cursor, maxc) ==
    LET chunk == Slice(t, cursor, cursor + maxc + 1)
        found == {k \in 1..Len(Delimiters) : Rfind(chunk, Delimiters[k]) # -1}
    IN  IF found = {}
        THEN cursor + maxc
        ELSE LET delimiter == Delimiters[SetMin(found)]
             IN  cursor + Rfind(chunk, delimiter) + Len(delimiter)

\* the for loop over the delimiters: the first delimiter, in list order, that
\* rfind finds in the window moves end_pos right behind its last occurrence;
\* with no delimiter in the window end_pos stays cursor + max_chars
SentenceEnd(t, cursor, maxc) ==
    LET chunk == Slice(t, cursor, cursor + maxc)
        found == {k \in 1..Len(Delimiters) : Rfind(chunk, Delimiters[k]) # -1}
    IN  IF found = {}
        THEN cursor + maxc
        ELSE LET delimiter == Delimiters[SetMin(found)]
             IN  cursor + Rfind(chunk, delimiter) + Len(delimiter)

RECURSIVE ChunkLoop(_, _, _)
\* the while loop of chunk_text from cursor on: the chunks it appends
ChunkLoop(t, maxc, cursor) ==
    IF cursor >= Len(t) THEN <<>>
    ELSE IF cursor + maxc >= Len(t)
    THEN <<Strip(Slice(t, cursor, Len(t)))>>
    ELSE LET end_pos == SentenceEnd(t, cursor, maxc)
         IN  <<Strip(Slice(t, cursor, end_pos))>> \o ChunkLoop(t, maxc, end_pos)

\* chunk_text(text, max_chars) as a function: the list it returns
ChunkText(t, maxc) ==
    IF Len(t) <= maxc THEN <<t>> ELSE ChunkLoop(t, maxc, 0)

RECURSIVE AsString(_)
\* a text as one string value
AsString(t) ==
    IF t = <<>> THEN ""
    ELSE IF Len(t) = 1 THEN t[1]
    ELSE AsString(SubSeq(t, 1, Len(t) \div 2))
            \o AsString(SubSeq(t, Len(t) \div 2 + 1, Len(t)))

-----------------------------------------------------------------------------
(* chunk_text *)

\* the example of the boundary preference property
HelloText ==
    << "a","a","a","a","a"," ","a","a","a","a","a","."," ",
       "a","a","a","a"," ","a","a"," ","a"," ","a","a","a","a"," ",
       "a","a","a","a","a","a","a","a"," ","a","a","a","a"," ",
       "a","a","a","a","a","a","a","a","a"," ","a","a","a"," ","a"," ",
       "a","a","a","a","a","." >>

\* the arguments chunk_text is called with when it is exercised on its own
ChunkCall(t, m) ==
    /\ pc = "chunk_text"
    /\ text = t
    /\ max_chars = m
    /\ current_pos = 0
    /\ chunks = <<>>
    /\ slices = <<>>
    /\ windows = <<>>

\* the state of everything chunk_text does not touch, before a run starts
Idle ==
    /\ f5tts_model = FALSE
    /\ drive_manager = FALSE
    /\ transcriptions = <<>>
    /\ reference_text = <<>>
    /\ script_files = <<>>
    /\ script_i = 0
    /\ all_generated_files = <<>>
    /\ status = <<>>
    /\ script_chunks = <<>>
    /\ i = 0
    /\ generated_files = <<>>
    /\ attempts = <<>>
    /\ merge_input = <<>>
    /\ raised = "none"
    /\ events = <<>>
    /\ disk = {}
    /\ drive_files = {}
    /\ upload_log = <<>>
    /\ faults = 0

InitChunk ==
    /\ \/ \E t \in TextsUpTo(MaxLen), m \in 1..MaxChars : ChunkCall(t, m)
       \/ ChunkCall(HelloText, 20)
       \/ ChunkCall(Fill("a", 1000), DefaultMaxChars)
    /\ config = [auto_upload |-> FALSE, output_folder_id |-> NoFolder,
                 chunk_size |-> None]
    /\ Idle

\* ChunkShort returning the trimmed text
ChunkShortTrimmed ==
    /\ pc = "chunk_text"
    /\ Len(text) <= max_chars
    /\ chunks' = <<Strip(text)>>
    /\ slices' = << <<0, Len(text)>> >>
    /\ pc' = "chunk_done"
    /\ UNCHANGED <<text, max_chars, current_pos, windows>>
    /\ UNCHANGED <<scriptVars, runVars, worldVars>>

\* if len(text) <= max_chars: return [text]
ChunkShort ==
    /\ pc = "chunk_text"
    /\ Len(text) <= max_chars
    /\ chunks' = <<text>>
    /\ slices' = << <<0, Len(text)>> >>
    /\ pc' = "chunk_done"
    /\ UNCHANGED <<text, max_chars, current_pos, windows>>
    /\ UNCHANGED <<scriptVars, runVars, worldVars>>

\* chunks = []; current_pos = 0 and the first test of the while condition
ChunkEnter ==
    /\ pc = "chunk_text"
    /\ Len(text) > max_chars
    /\ chunks' = <<>>
    /\ current_pos' = 0
    /\ pc' = "chunk_loop"
    /\ UNCHANGED <<text, max_chars, slices, windows>>
    /\ UNCHANGED <<scriptVars, runVars, worldVars>>

\* one iteration that ends the scan: end_pos >= len(text), the last chunk
ChunkLast ==
    /\ pc = "chunk_loop"
    /\ current_pos < Len(text)
    /\ current_pos + max_chars >= Len(text)
    /\ chunks' = Append(chunks, Strip(Slice(text, current_pos, Len(text))))
    /\ slices' = Append(slices, <<current_pos, Len(text)>>)
    /\ pc' = "chunk_done"
    /\ UNCHANGED <<text, max_chars, current_pos, windows>>
    /\ UNCHANGED <<scriptVars, runVars, worldVars>>

\* ChunkStep moving the cursor one past the boundary
ChunkStepOffByOne ==
    /\ pc = "chunk_loop"
    /\ current_pos < Len(text)
    /\ current_pos + max_chars < Len(text)
    /\ LET end_pos == SentenceEnd(text, current_pos, max_chars)
       IN  /\ chunks' = Append(chunks, Strip(Slice(text, current_pos, end_pos)))
           /\ slices' = Append(slices, <<current_pos, end_pos>>)
           /\ windows' = Append(windows, <<current_pos, end_pos>>)
           /\ current_pos' = end_pos + 1
    /\ pc' = "chunk_loop"
    /\ UNCHANGED <<text, max_chars>>
    /\ UNCHANGED <<scriptVars, runVars, worldVars>>

\* ChunkStep leaving the cursor where it is
ChunkStepCursorStays ==
    /\ pc = "chunk_loop"
    /\ current_pos < Len(text)
    /\ current_pos + max_chars < Len(text)
    /\ LET end_pos == SentenceEnd(text, current_pos, max_chars)
       IN  /\ chunks' = Append(chunks, Strip(Slice(text, current_pos, end_pos)))
           /\ slices' = Append(slices, <<current_pos, end_pos>>)
           /\ windows' = Append(windows, <<current_pos, end_pos>>)
           /\ current_pos' = current_pos
    /\ pc' = "chunk_loop"
    /\ UNCHANGED <<text, max_chars>>
    /\ UNCHANGED <<scriptVars, runVars, worldVars>>

\* one iteration that cuts a chunk at a sentence end or at max_chars
ChunkStep ==
    /\ pc = "chunk_loop"
    /\ current_pos < Len(text)
    /\ current_pos + max_chars < Len(text)
    /\ LET end_pos == SentenceEnd(text, current_pos, max_chars)
       IN  /\ chunks' = Append(chunks, Strip(Slice(text, current_pos, end_pos)))
           /\ slices' = Append(slices, <<current_pos, end_pos>>)
           /\ windows' = Append(windows, <<current_pos, end_pos>>)
           /\ current_pos' = end_pos
    /\ pc' = "chunk_loop"
    /\ UNCHANGED <<text, max_chars>>
    /\ UNCHANGED <<scriptVars, runVars, worldVars>>

NextChunk ==
    \/ ChunkShort
    \/ ChunkEnter
    \/ ChunkLast
    \/ ChunkStep

SpecChunk == InitChunk /\ [][NextChunk]_vars

-----------------------------------------------------------------------------
(* The local files and the remote folder *)

\* temp_dir / f"{script_name}_chunk_{i+1:03d}.wav"
ChunkPath(stem, n) == [dir |-> "temp", stem |-> stem, n |-> n]

\* output_dir / f"{script_name}_complete.wav"
CompletePath(stem) == [dir |-> "output", stem |-> stem, n |-> 0]

\* Path.name: the file name without its directory
Name(path) == <<path.stem, path.n>>

\* Path.exists()
Exists(dsk, path) == \E e \in dsk : e[1] = path

\* what reading the file gives
Content(dsk, path) == (CHOOSE e \in dsk : e[1] = path)[2]

\* the disk after path was written in full, over whatever was there
Written(dsk, path, content) ==
    {e \in dsk : e[1] # path} \cup {<<path, content>>}

\* what a write that fails can leave behind: nothing touched, or the file
\* opened for writing and cut short
FailedWrites(dsk, path) == {dsk, Written(dsk, path, <<>>)}

\* the samples infer returns for chunk n of a script
Audio(stem, n) == << <<stem, n>> >>

\* list_files_in_folder: the entries of the folder, or [] when ListFile
\* raises; each result comes with the failures it costs
Listings(drv, folder_id, budget) ==
    {[files |-> {e \in drv : e.parent = folder_id}, cost |-> 0]}
        \cup (IF budget > 0 THEN {[files |-> {}, cost |-> 1]} ELSE {})

\* CreateFile, SetContentFile, Upload: a new entry with a fresh id, or an
\* exception and no entry
Uploads(drv, path, folder_id, budget) ==
    LET id == Cardinality(drv) + 1
        entry == [title |-> Name(path), parent |-> folder_id, id |-> id]
    IN  {[ret |-> <<id>>, drive |-> drv \cup {entry}, cost |-> 0]}
            \cup (IF budget > 0
                  THEN {[ret |-> None, drive |-> drv, cost |-> 1]}
                  ELSE {})

\* upload_file(file_path, folder_id, overwrite): every result it can have,
\* as [ret, drive, cost]; the order of a listing is the remote side's, so
\* any entry of the same title may be the one found first
UploadFile(dsk, drv, path, folder_id, overwrite, budget) ==
    IF ~Exists(dsk, path)
    THEN {[ret |-> None, drive |-> drv, cost |-> 0]}
    ELSE IF folder_id # NoFolder /\ ~overwrite
    THEN UNION {
            LET same == {e \in l.files : e.title = Name(path)}
            IN  IF same # {}
                THEN {[ret |-> <<e.id>>, drive |-> drv, cost |-> l.cost] :
                         e \in same}
                ELSE {[ret |-> u.ret, drive |-> u.drive,
                       cost |-> l.cost + u.cost] :
                         u \in Uploads(drv, path, folder_id, budget - l.cost)}
            : l \in Listings(drv, folder_id, budget)}
    ELSE Uploads(drv, path, folder_id, budget)

\* the upload_log entry of a call
Logged(path, folder_id, overwrite, ret) ==
    [name |-> Name(path), folder |-> folder_id, overwrite |-> overwrite,
     ret |-> ret]

-----------------------------------------------------------------------------
(* upload_file on its own *)

\* the local files upload_file is called with
LocalFiles == {ChunkPath("s1", 1), CompletePath("s1")}

\* the remote folders upload_file is called with
Folders == {NoFolder, "out", "other"}

InitDrive ==
    /\ pc = "drive"
    /\ text = <<>>
    /\ max_chars = DefaultMaxChars
    /\ current_pos = 0
    /\ chunks = <<>>
    /\ slices = <<>>
    /\ windows = <<>>
    /\ config = [auto_upload |-> TRUE, output_folder_id |-> NoFolder,
                 chunk_size |-> None]
    /\ f5tts_model = FALSE
    /\ drive_manager = TRUE
    /\ transcriptions = <<>>
    /\ reference_text = <<>>
    /\ script_files = <<>>
    /\ script_i = 0
    /\ all_generated_files = <<>>
    /\ status = <<>>
    /\ script_chunks = <<>>
    /\ i = 0
    /\ generated_files = <<>>
    /\ attempts = <<>>
    /\ merge_input = <<>>
    /\ raised = "none"
    /\ events = <<>>
    /\ \E present \in SUBSET LocalFiles :
          disk = {<<f, Audio(f.stem, f.n)>> : f \in present}
    /\ drive_files = {}
    /\ upload_log = <<>>
    /\ faults = 0

\* one call of upload_file
CallUploadFile ==
    /\ pc = "drive"
    /\ Len(upload_log) < MaxUploads
    /\ \E path \in LocalFiles, folder_id \in Folders, overwrite \in BOOLEAN :
          \E u \in UploadFile(disk, drive_files, path, folder_id, overwrite,
                              MaxFaults - faults) :
              /\ drive_files' = u.drive
              /\ faults' = faults + u.cost
              /\ upload_log' =
                    Append(upload_log,
                           Logged(path, folder_id, overwrite, u.ret))
    /\ UNCHANGED <<pc, disk, chunkVars, scriptVars, runVars>>

NextDrive == CallUploadFile

SpecDrive == InitDrive /\ [][NextDrive]_vars

-----------------------------------------------------------------------------
(* generate_audio_chunk and merge_audio_files *)

\* generate_audio_chunk(chunk, ..., output_path): every result it can have,
\* as [result, disk, loaded, cost].  load_f5tts_model runs before the try
\* block, so its exception leaves the call ("raise"); an exception of infer
\* or of sf.write is caught and the call returns False.
GenerateAudioChunk(dsk, loaded, path, samples, budget) ==
    (IF ~loaded /\ budget > 0
     THEN {[result |-> "raise", disk |-> dsk, loaded |-> FALSE, cost |-> 1]}
     ELSE {})
    \cup {[result |-> "true", disk |-> Written(dsk, path, samples),
           loaded |-> TRUE, cost |-> 0]}
    \cup (IF budget > 0
          THEN {[result |-> "false", disk |-> d, loaded |-> TRUE, cost |-> 1] :
                   d \in FailedWrites(dsk, path)}
          ELSE {})

RECURSIVE Concatenated(_, _)
\* np.concatenate of what sf.read gives for each file, in list order
Concatenated(dsk, files) ==
    IF files = <<>> THEN <<>>
    ELSE Content(dsk, Head(files)) \o Concatenated(dsk, Tail(files))

\* merge_audio_files(audio_files, output_path): every result it can have, as
\* [result, disk, cost]; every exception is caught and the call returns
\* False
MergeAudioFiles(dsk, audio_files, path, budget) ==
    IF \E n \in 1..Len(audio_files) : ~Exists(dsk, audio_files[n])
    THEN {[result |-> FALSE, disk |-> dsk, cost |-> 0]}
    ELSE {[result |-> TRUE,
           disk |-> Written(dsk, path, Concatenated(dsk, audio_files)),
           cost |-> 0]}
         \cup (IF budget > 0
               THEN {[result |-> FALSE, disk |-> d, cost |-> 1] :
                        d \in FailedWrites(dsk, path)}
               ELSE {})

-----------------------------------------------------------------------------
(* run_pipeline and process_script *)

\* the script files of the scripts directory
ScriptNames == {"s1", "s2"}

\* what the script files hold: a text of one chunk, and a text of three
\* chunks, the first cut at a sentence end and the second at 500 characters
ScriptContent(name) ==
    CASE name = "s1" -> <<" ", "a", ".", "\n">>
      [] name = "s2" -> <<"a", ".", " ">> \o Fill("a", 501) \o <<"\n">>

\* lines 190-196 for every script file: the text read and stripped, split by
\* chunk_text with max_chars=500, each chunk as a string
ChunksOfScript ==
    [name \in ScriptNames |->
        LET script_text == Strip(ScriptContent(name))
            returned == ChunkText(script_text, DefaultMaxChars)
        IN  [n \in 1..Len(returned) |-> AsString(returned[n])]]

\* the script lists the discovery of lines 137-147 can give
ScriptLists == UNION {[1..n -> ScriptNames] : n \in 0..MaxScripts}

\* what the transcription model can return for the reference clip
Transcripts == {<<>>, <<" ">>, <<" ", "a">>}

\* the script process_script is at
ScriptName == script_files[script_i + 1]

Init ==
    /\ pc = "start"
    /\ text = <<>>
    /\ max_chars = DefaultMaxChars
    /\ current_pos = 0
    /\ chunks = <<>>
    /\ slices = <<>>
    /\ windows = <<>>
    /\ config \in [auto_upload : BOOLEAN, output_folder_id : {NoFolder, "out"},
                  chunk_size : ChunkSizes]
    /\ Idle

\* DriveManager(base_dir): authenticate raises or the manager is built
InitManagers ==
    /\ pc = "start"
    /\ \/ /\ pc' = "reference"
          /\ faults' = faults
       \/ /\ faults < MaxFaults
          /\ pc' = "crashed"
          /\ faults' = faults + 1
    /\ UNCHANGED <<chunkVars, scriptVars, runVars, disk, drive_files, upload_log>>

\* Step 2: the reference clip is there, or no audio file is and the run
\* exits
FindReference ==
    /\ pc = "reference"
    /\ \/ /\ pc' = "transcribe"
          /\ faults' = faults
       \/ /\ faults < MaxFaults
          /\ pc' = "exit"
          /\ faults' = faults + 1
    /\ UNCHANGED <<chunkVars, scriptVars, runVars, disk, drive_files, upload_log>>

\* the exception of transcribe_audio caught before it leaves run_pipeline
TranscriptionFailedGoesOn ==
    /\ transcriptions' = Append(transcriptions, "raise")
    /\ pc' = "find_scripts"
    /\ UNCHANGED reference_text

\* transcribe_audio raised: it re-raises what the model raised, run_pipeline
\* has no handler around the call, and the run ends with the exception
TranscriptionFailed ==
    /\ transcriptions' = Append(transcriptions, "raise")
    /\ pc' = "crashed"
    /\ UNCHANGED reference_text

\* load_whisper_model and transcribe_audio: the model fails to load and
\* transcribe_audio is never called, or transcribe_audio raises, or the
\* stripped transcription is the reference text
Transcribe ==
    /\ pc = "transcribe"
    /\ \/ /\ \E t \in Transcripts : reference_text' = Strip(t)
          /\ transcriptions' = Append(transcriptions, "ok")
          /\ pc' = "find_scripts"
          /\ faults' = faults
       \/ /\ faults < MaxFaults
          /\ pc' = "crashed"
          /\ faults' = faults + 1
          /\ UNCHANGED <<transcriptions, reference_text>>
       \/ /\ faults < MaxFaults
          /\ TranscriptionFailed
          /\ faults' = faults + 1
    /\ UNCHANGED <<chunkVars, scriptVars, disk, drive_files, upload_log>>
    /\ UNCHANGED <<f5tts_model, drive_manager, config, script_files, script_i,
                   all_generated_files, status>>

\* Step 3 up to the loop: the scripts are found and the drive manager is set
\* for auto-upload, or no script is found and the run exits
FindScripts ==
    /\ pc = "find_scripts"
    /\ \E files \in ScriptLists :
          IF files = <<>>
          THEN /\ pc' = "exit"
               /\ UNCHANGED <<script_files, drive_manager, all_generated_files>>
          ELSE /\ pc' = "next_script"
               /\ script_files' = files
               /\ drive_manager' = config.auto_upload
               /\ all_generated_files' = <<>>
    /\ UNCHANGED <<chunkVars, scriptVars, worldVars>>
    /\ UNCHANGED <<f5tts_model, transcriptions, reference_text, config,
                   script_i, status>>

\* the except branch stopping the run instead of going on
ScriptFailedStopsRun ==
    /\ status' = Append(status, [result |-> "failed", files |-> 0])
    /\ script_i' = script_i + 1
    /\ pc' = "crashed"
    /\ UNCHANGED all_generated_files

\* process_script raised: the except branch reports the script as failed and
\* the loop continues with the next script
ScriptFailed ==
    /\ status' = Append(status, [result |-> "failed", files |-> 0])
    /\ script_i' = script_i + 1
    /\ pc' = "next_script"
    /\ UNCHANGED all_generated_files

\* process_script returned files: they are added to all_generated_files and
\* the script is reported as complete with their number
ScriptReturned(files) ==
    /\ all_generated_files' = all_generated_files \o files
    /\ status' = Append(status, [result |-> "complete", files |-> Len(files)])
    /\ script_i' = script_i + 1
    /\ pc' = "next_script"

\* process_script up to the loop over the chunks: the script is read and
\* stripped and chunk_text splits it, or open/read raises
ProcessScript ==
    /\ pc = "next_script"
    /\ script_i < Len(script_files)
    /\ i' = 0
    /\ generated_files' = <<>>
    /\ attempts' = <<>>
    /\ merge_input' = <<>>
    /\ events' = <<>>
    /\ \/ /\ raised' = "none"
          /\ max_chars' = DefaultMaxChars
          /\ script_chunks' = ChunksOfScript[ScriptName]
          /\ pc' = "generate"
          /\ faults' = faults
          /\ UNCHANGED <<script_i, all_generated_files, status>>
       \/ /\ faults < MaxFaults
          /\ raised' = "read"
          /\ faults' = faults + 1
          /\ ScriptFailed
          /\ UNCHANGED <<max_chars, script_chunks>>
    /\ UNCHANGED <<text, current_pos, chunks, slices, windows>>
    /\ UNCHANGED <<disk, drive_files, upload_log>>
    /\ UNCHANGED <<f5tts_model, drive_manager, transcriptions, reference_text,
                   config, script_files>>

\* what upload_file returned, as the events record it
Returned(ret) == IF ret = None THEN "none" ELSE "id"

\* the upload of a file process_script just produced, when uploads are on:
\* [drive, log, calls, cost] of every result, calls being what each
\* upload_file call returned; process_script does not look at it
Publish(dsk, drv, log, path, budget) ==
    IF config.auto_upload /\ drive_manager
    THEN {[drive |-> u.drive,
           log |-> Append(log, Logged(path, config.output_folder_id, FALSE,
                                      u.ret)),
           calls |-> <<Returned(u.ret)>>,
           cost |-> u.cost] :
             u \in UploadFile(dsk, drv, path, config.output_folder_id, FALSE,
                              budget)}
    ELSE {[drive |-> drv, log |-> log, calls |-> <<>>, cost |-> 0]}

\* the event of a generate_audio_chunk call for chunk n, with the reference
\* text it was given
Synthesis(n, result) ==
    [op |-> "synth", n |-> n, ret |-> result, ref |-> reference_text]

\* the event of any other call: "publish" of chunk n or, with n = 0, of the
\* merged file, "sleep" after chunk n, "merge"
Call(op, n, ret) == [op |-> op, n |-> n, ret |-> ret, ref |-> <<>>]

\* the events of the upload_file calls for file n
Published(n, calls) == [k \in 1..Len(calls) |-> Call("publish", n, calls[k])]

\* ChunkGenerated taking the file off the list again when its upload fails
ChunkGeneratedUnlessPublishFails(dsk, chunk_output) ==
    \E u \in Publish(dsk, drive_files, upload_log, chunk_output,
                     MaxFaults - faults) :
        /\ generated_files' =
              IF u.calls = <<"none">>
              THEN generated_files
              ELSE Append(generated_files, chunk_output)
        /\ drive_files' = u.drive
        /\ upload_log' = u.log
        /\ faults' = faults + u.cost
        /\ events' = events \o <<Synthesis(i + 1, "true")>>
                             \o Published(i + 1, u.calls)
                             \o <<Call("sleep", i + 1, "-")>>

\* generate_audio_chunk returned True: the file is appended, uploaded if
\* uploads are on, whatever upload_file returns, and the delay follows
ChunkGenerated(dsk, chunk_output) ==
    \E u \in Publish(dsk, drive_files, upload_log, chunk_output,
                     MaxFaults - faults) :
        /\ generated_files' = Append(generated_files, chunk_output)
        /\ drive_files' = u.drive
        /\ upload_log' = u.log
        /\ faults' = faults + u.cost
        /\ events' = events \o <<Synthesis(i + 1, "true")>>
                             \o Published(i + 1, u.calls)
                             \o <<Call("sleep", i + 1, "-")>>

\* one iteration of the loop over the chunks: generate_audio_chunk, for a
\* chunk that was generated the append and the upload, and the delay; an
\* exception of generate_audio_chunk leaves process_script
GenerateChunk ==
    /\ pc = "generate"
    /\ i < Len(script_chunks)
    /\ LET chunk_output == ChunkPath(ScriptName, i + 1)
       IN  \E g \in GenerateAudioChunk(disk, f5tts_model, chunk_output,
                                       Audio(ScriptName, i + 1),
                                       MaxFaults - faults) :
              /\ attempts' = Append(attempts, g.result)
              /\ f5tts_model' = g.loaded
              /\ disk' = g.disk
              /\ merge_input' = merge_input
              /\ CASE g.result = "raise" ->
                        /\ raised' = "load"
                        /\ faults' = faults + g.cost
                        /\ events' = Append(events, Synthesis(i + 1, "raise"))
                        /\ ScriptFailed
                        /\ UNCHANGED <<i, generated_files, drive_files,
                                       upload_log, script_chunks>>
                   [] g.result = "false" ->
                        /\ i' = i + 1
                        /\ faults' = faults + g.cost
                        /\ events' = events \o <<Synthesis(i + 1, "false"),
                                                 Call("sleep", i + 1, "-")>>
                        /\ UNCHANGED <<raised, generated_files, drive_files,
                                       upload_log, pc, script_i,
                                       all_generated_files, status,
                                       script_chunks>>
                   [] g.result = "true" ->
                        /\ ChunkGenerated(g.disk, chunk_output)
                        /\ i' = i + 1
                        /\ UNCHANGED <<raised, pc, script_i,
                                       all_generated_files, status,
                                       script_chunks>>
    /\ UNCHANGED chunkVars
    /\ UNCHANGED <<drive_manager, transcriptions, reference_text, config,
                   script_files>>

\* Merged adding the merged file whatever merge_audio_files returned
MergedWhateverResult(files, final_output, result) ==
    Append(files, final_output)

\* generated_files after the merge: the merged file is appended only when
\* merge_audio_files returned True
Merged(files, final_output, result) ==
    IF result THEN Append(files, final_output) ELSE files

\* after the loop: the merge of the generated files, if there are any, the
\* upload of the merged file, and the return to run_pipeline
MergeChunks ==
    /\ pc = "generate"
    /\ i = Len(script_chunks)
    /\ LET final_output == CompletePath(ScriptName)
       IN  IF generated_files # <<>>
           THEN \E m \in MergeAudioFiles(disk, generated_files, final_output,
                                         MaxFaults - faults) :
                   /\ merge_input' = Append(merge_input, generated_files)
                   /\ disk' = m.disk
                   /\ generated_files' =
                         Merged(generated_files, final_output, m.result)
                   /\ IF m.result
                      THEN \E u \in Publish(m.disk, drive_files, upload_log,
                                            final_output,
                                            MaxFaults - faults - m.cost) :
                              /\ drive_files' = u.drive
                              /\ upload_log' = u.log
                              /\ faults' = faults + m.cost + u.cost
                              /\ events' = events
                                              \o <<Call("merge", 0, "true")>>
                                              \o Published(0, u.calls)
                      ELSE /\ faults' = faults + m.cost
                           /\ events' =
                                 Append(events, Call("merge", 0, "false"))
                           /\ UNCHANGED <<drive_files, upload_log>>
           ELSE UNCHANGED <<generated_files, merge_input, events, worldVars>>
    /\ ScriptReturned(generated_files')
    /\ UNCHANGED <<script_chunks, i, attempts, raised>>
    /\ UNCHANGED chunkVars
    /\ UNCHANGED <<f5tts_model, drive_manager, transcriptions, reference_text,
                   config, script_files>>

\* every script was taken: the final summary
FinishRun ==
    /\ pc = "next_script"
    /\ script_i = Len(script_files)
    /\ pc' = "done"
    /\ UNCHANGED <<chunkVars, scriptVars, runVars, worldVars>>

Next ==
    \/ InitManagers
    \/ FindReference
    \/ Transcribe
    \/ FindScripts
    \/ ProcessScript
    \/ GenerateChunk
    \/ MergeChunks
    \/ FinishRun

Spec == Init /\ [][Next]_vars

-----------------------------------------------------------------------------
(* generate_audio_chunk and merge_audio_files on their own *)

\* most calls when the two are exercised on their own
MaxAudioCalls == 3

\* the chunk files the calls are made with
AudioChunks == {ChunkPath("s1", 1), ChunkPath("s1", 2)}

\* the output_path of the merge_audio_files calls
FinalOutput == CompletePath("s1")

\* the audio_files lists of the merge_audio_files calls
AudioLists == UNION {[1..n -> AudioChunks] : n \in 1..2}

\* what a file left by an earlier run holds
OldAudio == << <<"old", 0>> >>

InitAudio ==
    /\ pc = "audio"
    /\ text = <<>>
    /\ max_chars = DefaultMaxChars
    /\ current_pos = 0
    /\ chunks = <<>>
    /\ slices = <<>>
    /\ windows = <<>>
    /\ config = [auto_upload |-> FALSE, output_folder_id |-> NoFolder,
                 chunk_size |-> None]
    /\ f5tts_model \in BOOLEAN
    /\ drive_manager = FALSE
    /\ transcriptions = <<"ok">>
    /\ reference_text = <<"a">>
    /\ script_files = <<>>
    /\ script_i = 0
    /\ all_generated_files = <<>>
    /\ status = <<>>
    /\ script_chunks = <<>>
    /\ i = 0
    /\ generated_files = <<>>
    /\ attempts = <<>>
    /\ merge_input = <<>>
    /\ raised = "none"
    /\ events = <<>>
    /\ \E present \in SUBSET (AudioChunks \cup {FinalOutput}) :
          disk = {<<f, OldAudio>> : f \in present}
    /\ drive_files = {}
    /\ upload_log = <<>>
    /\ faults = 0

\* one call of generate_audio_chunk
CallGenerateAudioChunk ==
    /\ pc = "audio"
    /\ Len(events) < MaxAudioCalls
    /\ \E path \in AudioChunks :
          \E g \in GenerateAudioChunk(disk, f5tts_model, path,
                                      Audio(path.stem, path.n),
                                      MaxFaults - faults) :
              /\ disk' = g.disk
              /\ f5tts_model' = g.loaded
              /\ faults' = faults + g.cost
              /\ attempts' = Append(attempts, g.result)
              /\ events' = Append(events, Synthesis(path.n, g.result))
    /\ UNCHANGED <<pc, chunkVars, drive_files, upload_log>>
    /\ UNCHANGED <<script_chunks, i, generated_files, merge_input, raised>>
    /\ UNCHANGED <<drive_manager, transcriptions, reference_text, config,
                   script_files, script_i, all_generated_files, status>>

\* one call of merge_audio_files
CallMergeAudioFiles ==
    /\ pc = "audio"
    /\ Len(events) < MaxAudioCalls
    /\ \E audio_files \in AudioLists :
          \E m \in MergeAudioFiles(disk, audio_files, FinalOutput,
                                   MaxFaults - faults) :
              /\ disk' = m.disk
              /\ faults' = faults + m.cost
              /\ merge_input' = Append(merge_input, audio_files)
              /\ events' =
                    Append(events,
                           Call("merge", 0,
                                IF m.result THEN "true" ELSE "false"))
    /\ UNCHANGED <<pc, chunkVars, runVars, drive_files, upload_log>>
    /\ UNCHANGED <<script_chunks, i, generated_files, attempts, raised>>

NextAudio ==
    \/ CallGenerateAudioChunk
    \/ CallMergeAudioFiles

SpecAudio == InitAudio /\ [][NextAudio]_vars

-----------------------------------------------------------------------------
(* Properties of chunk_text *)

RECURSIVE Joined(_, _)
\* the slices sl of t, one after the other
Joined(t, sl) ==
    IF sl = <<>> THEN <<>>
    ELSE Slice(t, Head(sl)[1], Head(sl)[2]) \o Joined(t, Tail(sl))

\* the six sentence-terminator markers, in their priority order
Markers ==
    << <<".", " ">>, <<"!", " ">>, <<"?", " ">>,
       <<".", "\n">>, <<"!", "\n">>, <<"?", "\n">> >>

\* marker m occurs in w at 0-based position p
MarkerAt(w, m, p) ==
    /\ p >= 0
    /\ p + 2 <= Len(w)
    /\ w[p + 1] = m[1]
    /\ w[p + 2] = m[2]

\* marker m occurs somewhere in w
MarkerIn(w, m) == \E p \in 0..(Len(w) - 2) : MarkerAt(w, m, p)

\* w holds none of the six markers
NoMarker(w) == \A k \in 1..6 : ~MarkerIn(w, Markers[k])

\* the window of the n-th delimiter search
WindowText(n) == Slice(text, windows[n][1], windows[n][1] + max_chars)

\* the position in its window of the boundary of the n-th delimiter search
CutAt(n) == windows[n][2] - windows[n][1]

\* C5 (segmentation coverage): the slices the chunks are cut from are
\* contiguous, start at 0, reach the cursor while the scan runs and len(text)
\* when chunk_text returns, and put one after the other they are the text.
C5_Coverage ==
    /\ Len(slices) = Len(chunks)
    /\ \A n \in 1..Len(slices) : slices[n][1] <= slices[n][2]
    /\ \A n \in 1..(Len(slices) - 1) : slices[n][2] = slices[n + 1][1]
    /\ slices # <<>> => slices[1][1] = 0
    /\ pc = "chunk_loop" =>
          current_pos = (IF slices = <<>> THEN 0 ELSE slices[Len(slices)][2])
    /\ pc = "chunk_done" =>
          /\ slices # <<>>
          /\ slices[Len(slices)][2] = Len(text)
          /\ Joined(text, slices) = text

\* a text of several chunks, one of them cut at a sentence end, is returned
C5_Witness ==
    /\ pc = "chunk_done"
    /\ Len(slices) >= 3
    /\ \E n \in 1..Len(windows) : CutAt(n) < max_chars

\* C6 as stated: a text no longer than max_chars gives one chunk, the text
\* trimmed of leading and trailing whitespace.
C6_Original ==
    (pc = "chunk_done" /\ Len(text) <= max_chars) => chunks = <<Strip(text)>>

\* C6 as amended: a text no longer than max_chars gives one chunk, the text
\* itself, leading and trailing whitespace included.
C6_ShortIsText ==
    (pc = "chunk_done" /\ Len(text) <= max_chars) =>
        /\ Len(chunks) = 1
        /\ chunks[1] = text

\* a short text with whitespace at an end is returned
C6_Witness ==
    /\ pc = "chunk_done"
    /\ Len(text) <= max_chars
    /\ Strip(text) # text
    /\ Len(chunks) = 1

\* C7 as stated: every returned chunk is a non-empty string.
C7_Original ==
    pc = "chunk_done" => \A n \in 1..Len(chunks) : chunks[n] # <<>>

\* C7 as amended: a returned chunk is empty exactly when the text is empty
\* (len(text) <= max_chars) or when the text is longer than max_chars and the
\* slice the chunk was cut from holds nothing but whitespace.
C7_EmptyChunks ==
    pc = "chunk_done" =>
        /\ Len(chunks) = Len(slices)
        /\ \A n \in 1..Len(chunks) :
              (chunks[n] = <<>>) <=>
                  IF Len(text) <= max_chars
                  THEN text = <<>>
                  ELSE \A p \in (slices[n][1] + 1)..slices[n][2] :
                          text[p] \in Whitespace

\* a text longer than max_chars with a whitespace-only slice is returned, as
\* is a whitespace-only chunk of a short text
C7_Witness ==
    /\ pc = "chunk_done"
    /\ Len(text) > max_chars
    /\ \E n \in 1..Len(chunks) : chunks[n] = <<>>
    /\ \E n \in 1..Len(chunks) : chunks[n] # <<>>

C9_NoMarkerFallback ==
    /\ \A n \in 1..Len(windows) :
          NoMarker(WindowText(n)) => windows[n][2] = windows[n][1] + max_chars
    /\ (pc = "chunk_done" /\ Len(text) = 2 * max_chars /\ NoMarker(text)) =>
          /\ Len(chunks) = 2
          /\ chunks[1] = Strip(Slice(text, 0, max_chars))

\* a text of 2 * max_chars characters, a blank inside its first window and no
\* marker, is returned in two chunks
C9_Witness ==
    /\ pc = "chunk_done"
    /\ Len(text) = 2 * max_chars
    /\ NoMarker(text)
    /\ \E p \in 1..(max_chars - 1) : text[p] \in Whitespace
    /\ Len(chunks) = 2

-----------------------------------------------------------------------------
(* Properties of process_script and run_pipeline *)

\* chunk_text as a function returns what the loop, run step by step, returns
ChunkTextAgrees ==
    pc = "chunk_done" => chunks = ChunkText(text, max_chars)

\* a script was taken from script_files and process_script is over
ScriptOver == pc = "next_script" /\ status # <<>>

\* the script process_script was last called with
LastScript == script_files[script_i]

\* how run_pipeline reported the last script
LastStatus == status[Len(status)]

RECURSIVE Successes(_, _, _)
\* the chunk files of the calls from the n-th on that returned True
Successes(results, stem, n) ==
    IF n > Len(results) THEN <<>>
    ELSE (IF results[n] = "true" THEN <<ChunkPath(stem, n)>> ELSE <<>>)
             \o Successes(results, stem, n + 1)

RECURSIVE FilesReported(_)
\* the sum of the file numbers of the reports
FilesReported(reports) ==
    IF reports = <<>> THEN 0
    ELSE Head(reports).files + FilesReported(Tail(reports))

\* C1 (segment-failure resilience): once a script that could be read is
\* over, generate_audio_chunk was called for every chunk, generated_files
\* starts with the files of the calls that succeeded, in index order, and
\* merge_audio_files was called once with exactly those files if there are
\* any.
C1_Resilience ==
    (ScriptOver /\ raised # "read") =>
        LET files == Successes(attempts, LastScript, 1)
        IN  /\ Len(attempts) = Len(script_chunks)
            /\ Len(generated_files) >= Len(files)
            /\ SubSeq(generated_files, 1, Len(files)) = files
            /\ files # <<>> => merge_input = <<files>>

\* C2 (zero-success termination): once a script is over for which no
\* generate_audio_chunk call succeeded, no merge was attempted, there is no
\* artifact, and run_pipeline reported the script as failed, not complete.
C2_ZeroSuccess ==
    (/\ ScriptOver
     /\ raised # "read"
     /\ \A n \in 1..Len(attempts) : attempts[n] # "true") =>
        /\ merge_input = <<>>
        /\ generated_files = <<>>
        /\ LastStatus.result = "failed"

\* C3 (run isolation): every script taken is reported once, as failed
\* exactly when process_script raised; a failed script adds nothing to
\* all_generated_files; no script's failure ends the run, and when the run is
\* done every script of the batch was processed.
C3_RunIsolation ==
    /\ Len(status) = script_i
    /\ script_i <= Len(script_files)
    /\ pc \in {"crashed", "exit"} => status = <<>>
    /\ pc = "done" => Len(status) = Len(script_files)
    /\ ScriptOver => (LastStatus.result = "failed" <=> raised # "none")
    /\ ScriptOver =>
          (LastStatus.result = "complete" <=>
              LastStatus.files = Len(generated_files) /\ raised = "none")
    /\ \A n \in 1..Len(status) :
          status[n].result = "failed" => status[n].files = 0
    /\ Len(all_generated_files) = FilesReported(status)

\* a run is done in which process_script raised for the first script and the
\* second script, of several chunks, completed with every chunk file and the
\* merged file
C3_Witness ==
    /\ pc = "done"
    /\ Len(status) = 2
    /\ status[1].result = "failed"
    /\ status[2].result = "complete"
    /\ status[2].files = Len(script_chunks) + 1
    /\ Len(script_chunks) > 1
    /\ Len(all_generated_files) = status[2].files

\* C4: no generate_audio_chunk call raises, and no exception of the
\* synthesis collaborator (the model failing to load included) leaves
\* process_script.
C4_NoSynthesisException ==
    /\ raised # "load"
    /\ \A n \in 1..Len(attempts) : attempts[n] # "raise"

-----------------------------------------------------------------------------
(* Properties of upload_file *)

\* the remote entries of a name in a folder
EntriesOf(name, folder_id) ==
    {e \in drive_files : e.title = name /\ e.parent = folder_id}

\* C10 (idempotent publish): after two upload_file calls with the same file
\* name and the same folder, both without overwrite, the first of which
\* returned an id, the second returned that id and the folder holds exactly
\* one entry of that name.
C10_IdempotentPublish ==
    (/\ Len(upload_log) = 2
     /\ upload_log[1].name = upload_log[2].name
     /\ upload_log[1].folder = upload_log[2].folder
     /\ upload_log[1].folder # NoFolder
     /\ ~upload_log[1].overwrite
     /\ ~upload_log[2].overwrite
     /\ upload_log[1].ret # None) =>
        /\ upload_log[2].ret = upload_log[1].ret
        /\ Cardinality(EntriesOf(upload_log[1].name, upload_log[1].folder)) = 1

-----------------------------------------------------------------------------
(* Properties of the reference clip and of the configuration *)

\* process_script was called, or a synthesis call, a merge or an upload was
\* made, or a file was written
SomethingProduced ==
    \/ status # <<>>
    \/ attempts # <<>>
    \/ events # <<>>
    \/ merge_input # <<>>
    \/ upload_log # <<>>
    \/ disk # {}
    \/ drive_files # {}

\* C11 (fatal-to-run ordering): transcribe_audio is called at most once in a
\* run; the scripts are looked for and processed only after that one call
\* returned; a run that ended at the reference clip (no audio file, the
\* transcription model failing to load, the transcription raising) or before
\* made no synthesis call, no merge and no upload and wrote no file.
C11_ReferenceFirst ==
    /\ Len(transcriptions) <= 1
    /\ pc \in {"find_scripts", "next_script", "generate", "done"} =>
          transcriptions = <<"ok">>
    /\ script_files # <<>> => transcriptions = <<"ok">>
    /\ SomethingProduced => transcriptions = <<"ok">>
    /\ pc \in {"crashed", "exit"} => ~SomethingProduced

\* the one transcribe_audio call of a run raised and the run ended there
C11_Witness ==
    /\ pc = "crashed"
    /\ transcriptions = <<"raise">>
    /\ ~SomethingProduced

\* C12 (reference voice invariant): every generate_audio_chunk call is given
\* a reference text that is not empty.
C12_ReferenceNonEmpty ==
    \A k \in 1..Len(events) :
        events[k].op = "synth" => events[k].ref # <<>>

\* the max_chars the configuration asks for: its chunk_size, 500 without one
ConfiguredMaxChars ==
    IF config.chunk_size = None THEN DefaultMaxChars ELSE config.chunk_size[1]

\* C13 (configured segment length): the max_chars process_script passes to
\* chunk_text is the chunk_size of the configuration, and 500 only when the
\* configuration has none.
C13_ConfiguredMaxChars ==
    pc = "generate" => max_chars = ConfiguredMaxChars

-----------------------------------------------------------------------------
(* Properties of the uploads process_script makes *)

\* the script the events are those of
CurrentScript == IF pc = "generate" THEN ScriptName ELSE LastScript

\* the positions in events of the upload_file calls
PublishEvents == {k \in 1..Len(events) : events[k].op = "publish"}

\* the file of an upload event: the chunk file n, or the merged file
PublishedPath(e) ==
    IF e.n = 0 THEN CompletePath(CurrentScript)
    ELSE ChunkPath(CurrentScript, e.n)

\* C14 (best-effort publication): whatever upload_file returned, (1) no
\* exception left process_script after an upload, (2) the uploaded file is
\* still in generated_files and on disk with what was written to it, (3) the
\* upload of a chunk is followed by the delay of that chunk, and once the
\* script is over every chunk was attempted and the merge was called with the
\* generated chunk files, (4) generated_files starts with the files of the
\* calls that returned True, in index order, at most the merged file behind
\* them: it depends on no upload result.
C14_BestEffortPublish ==
    PublishEvents # {} =>
        /\ raised = "none"
        /\ \A k \in PublishEvents :
              LET path == PublishedPath(events[k])
              IN  /\ \E n \in 1..Len(generated_files) :
                        generated_files[n] = path
                  /\ Exists(disk, path)
                  /\ events[k].n > 0 =>
                        /\ Content(disk, path) =
                              Audio(CurrentScript, events[k].n)
                        /\ k < Len(events)
                        /\ events[k + 1].op = "sleep"
                        /\ events[k + 1].n = events[k].n
        /\ LET files == Successes(attempts, CurrentScript, 1)
           IN  /\ Len(generated_files) \in {Len(files), Len(files) + 1}
               /\ SubSeq(generated_files, 1, Len(files)) = files
               /\ pc # "generate" =>
                     /\ Len(attempts) = Len(script_chunks)
                     /\ merge_input = <<files>>

\* a script of several chunks is over: the upload of its first chunk file
\* failed, later chunks were generated and the merged file was written
C14_Witness ==
    /\ ScriptOver
    /\ Len(script_chunks) > 1
    /\ \E k \in PublishEvents : events[k].n = 1 /\ events[k].ret = "none"
    /\ Len(generated_files) = Len(script_chunks) + 1
    /\ Exists(disk, CompletePath(LastScript))

-----------------------------------------------------------------------------
(* Properties of the order of the calls process_script makes *)

\* process_script uploads what it produces
Publishing == config.auto_upload /\ drive_manager

\* the number of generate_audio_chunk calls among the first k events
SynthesizedBy(k) ==
    Cardinality({j \in 1..k : events[j].op = "synth"})

\* event k is a call of op for file n
IsCall(k, op, n) ==
    /\ k \in 1..Len(events)
    /\ events[k].op = op
    /\ events[k].n = n

\* C17 (strict sequencing within a script): in the order of the calls of
\* one process_script call, (1) the generate_audio_chunk calls are for the
\* chunks 1, 2, ... in that order, each after the delay of the chunk before
\* it; (2) a chunk file is uploaded right after the call that generated it
\* returned True, and only then, and when uploads are on every generated file
\* is; (3) the delay follows every generate_audio_chunk call, whatever its
\* outcome, behind the upload if there is one; (4) merge_audio_files is
\* called at most once, after the delay of the last chunk; (5) the merged
\* file is uploaded only right after merge_audio_files returned True.
C17_Sequencing ==
    \A k \in 1..Len(events) :
        LET e == events[k]
        IN  CASE e.op = "synth" ->
                   /\ e.n = SynthesizedBy(k)
                   /\ k > 1 => IsCall(k - 1, "sleep", e.n - 1)
                   /\ IF Publishing /\ e.ret = "true"
                      THEN /\ IsCall(k + 1, "publish", e.n)
                           /\ IsCall(k + 2, "sleep", e.n)
                      ELSE IsCall(k + 1, "sleep", e.n)
              [] e.op = "publish" /\ e.n > 0 ->
                   /\ Publishing
                   /\ IsCall(k - 1, "synth", e.n)
                   /\ events[k - 1].ret = "true"
              [] e.op = "sleep" ->
                   \/ IsCall(k - 1, "synth", e.n)
                   \/ IsCall(k - 1, "publish", e.n)
              [] e.op = "merge" ->
                   /\ SynthesizedBy(k) = Len(script_chunks)
                   /\ IsCall(k - 1, "sleep", Len(script_chunks))
                   /\ (Publishing /\ e.ret = "true") =>
                          IsCall(k + 1, "publish", 0)
              [] e.op = "publish" /\ e.n = 0 ->
                   /\ Publishing
                   /\ IsCall(k - 1, "merge", 0)
                   /\ events[k - 1].ret = "true"

-----------------------------------------------------------------------------
(* Properties of merge_audio_files and generate_audio_chunk on their own *)

\* the step is a merge_audio_files call
MergeCalled == Len(merge_input') = Len(merge_input) + 1

\* the step is a generate_audio_chunk call
GenerateCalled == Len(attempts') = Len(attempts) + 1

\* the event of the call the step made
LastEvent == events'[Len(events')]

\* some file of the list cannot be read
SomeUnreadable(audio_files) ==
    \E n \in 1..Len(audio_files) : ~Exists(disk, audio_files[n])

\* C15 (merge is all-or-nothing): a merge_audio_files call with a file in
\* its list that cannot be read returns False and leaves every file as it
\* was; a call whose files can all be read either returns True having
\* written the output file, and nothing else, with the contents of the files
\* one after the other in list order, or returns False and leaves every file
\* as it was: the output file never holds part of a merge.
C15_AllOrNothing ==
    [][MergeCalled =>
          LET audio_files == merge_input'[Len(merge_input')]
          IN  IF SomeUnreadable(audio_files)
              THEN /\ LastEvent.ret = "false"
                   /\ disk' = disk
              ELSE \/ /\ LastEvent.ret = "true"
                      /\ disk' = Written(disk, FinalOutput,
                                         Concatenated(disk, audio_files))
                   \/ /\ LastEvent.ret = "false"
                      /\ disk' = disk]_vars

\* C16 (adapter file effect): a generate_audio_chunk call that returns True
\* has written the samples to its output path, over whatever was there, and
\* touched no other file; a call that does not return True leaves every
\* file, the one at its output path included, as it was.
C16_FileEffect ==
    [][GenerateCalled =>
          LET path == ChunkPath("s1", LastEvent.n)
          IN  IF LastEvent.ret = "true"
              THEN disk' = Written(disk, path, Audio("s1", LastEvent.n))
              ELSE disk' = disk]_vars

-----------------------------------------------------------------------------
(* Properties of the list process_script returns *)

\* merge_audio_files was called and returned result
MergeReturned(result) ==
    \E k \in 1..Len(events) :
        events[k].op = "merge" /\ events[k].ret = result

\* C20 (script result shape): merge_audio_files is never called with an
\* empty list; once process_script has returned, the list it returned is the
\* files of the generate_audio_chunk calls that returned True, in index
\* order, with the merged file behind them exactly when there is such a file
\* and merge_audio_files returned True; merge_audio_files was called exactly
\* when there is such a file; when it returned False the list holds the
\* chunk files only and the merged file was not uploaded; run_pipeline
\* reports the length of that list.
C20_ResultShape ==
    /\ \A n \in 1..Len(merge_input) : merge_input[n] # <<>>
    /\ (ScriptOver /\ raised = "none") =>
          LET files == Successes(attempts, LastScript, 1)
          IN  /\ generated_files =
                    IF files # <<>> /\ MergeReturned("true")
                    THEN Append(files, CompletePath(LastScript))
                    ELSE files
              /\ (MergeReturned("true") \/ MergeReturned("false")) <=>
                    files # <<>>
              /\ ~(MergeReturned("true") /\ MergeReturned("false"))
              /\ ~MergeReturned("true") =>
                    \A k \in PublishEvents : events[k].n # 0
              /\ LastStatus.files = Len(generated_files)

\* process_script has returned the chunk files of a script of several
\* chunks, one of them not generated, after merge_audio_files returned False
C20_Witness ==
    /\ ScriptOver
    /\ raised = "none"
    /\ Publishing
    /\ MergeReturned("false")
    /\ Len(script_chunks) = 3
    /\ Len(generated_files) = 2
    /\ LastStatus.files = 2

-----------------------------------------------------------------------------
(* Properties of the size of the chunks and of the end of the scan *)

\* the length of the n-th slice
SliceLen(n) == slices[n][2] - slices[n][1]

\* C18 (segment size bound): every slice of a text longer than max_chars
\* holds at least one and at most max_chars characters, and no chunk
\* chunk_text builds, of a text of any length, is longer than max_chars.
C18_SizeBound ==
    /\ Len(text) > max_chars =>
          \A n \in 1..Len(slices) : SliceLen(n) \in 1..max_chars
    /\ \A n \in 1..Len(chunks) : Len(chunks[n]) <= max_chars

\* a text is returned one of whose slices ends behind a sentence end that
\* fills its window to the last character, another being shorter
C18_Witness ==
    /\ pc = "chunk_done"
    /\ \E n \in 1..Len(windows) :
          /\ CutAt(n) = max_chars
          /\ ~NoMarker(WindowText(n))
    /\ \E n \in 1..Len(slices) : SliceLen(n) < max_chars

\* an iteration of the while loop that does not end the scan
Iterates == pc = "chunk_loop" /\ pc' = "chunk_loop"

\* C19 (segmentation terminates): while the loop runs the cursor is below
\* len(text), so that the next iteration can always be made; every search
\* puts the boundary behind the cursor; chunk_text makes at most len(text)
\* iterations on a text longer than max_chars; and every iteration that does
\* not end the scan moves the cursor forward, so that len(text) minus the
\* cursor, which is positive, falls with every iteration and chunk_text
\* returns.
C19_Termination ==
    /\ [](/\ pc = "chunk_loop" => current_pos < Len(text)
          /\ \A n \in 1..Len(windows) : windows[n][2] > windows[n][1]
          /\ Len(text) > max_chars => Len(slices) <= Len(text))
    /\ [][Iterates => current_pos' > current_pos]_vars

\* a scan whose boundary was placed behind a sentence end at the very start of
\* its window has returned
C19_Witness ==
    /\ pc = "chunk_done"
    /\ \E n \in 1..Len(windows) :
          \E k \in 1..6 : MarkerAt(WindowText(n), Markers[k], 0)

=============================================================================
